---- MODULE Spec2Model ----
(***************************************************************************)
(* A model of tantivy's indexing pipeline (src/core/writer.rs): the        *)
(* IndexWriter with its bounded submission queue and worker threads, and   *)
(* the SegmentWriter each worker drives.                                   *)
(*                                                                         *)
(* The caller thread owns the IndexWriter (the SyncSender and the join     *)
(* handles).  Every worker owns a clone of Arc<Mutex<Receiver>>; the       *)
(* receiver lives as long as one worker thread lives.  Serializer calls    *)
(* may fail with an I/O error; inside a worker every such error is         *)
(* unwrapped, which panics and ends that worker thread.                    *)
(*                                                                         *)
(* The module also models the query parser (src/query/query_parser.rs):    *)
(* the combinator grammar query_language and QueryParser::parse_query.     *)
(***************************************************************************)
EXTENDS Integers, Sequences, FiniteSets, TLC

(***************************************************************************)
(* Bounds of the model.  SEGMENT_ROLL is 500 and QUEUE_CAPACITY is 10_000  *)
(* in the source (writer.rs lines 48 and 36); the model is parametric in   *)
(* both and is checked with small values so that a full queue and a        *)
(* segment roll-over happen within a few documents.                        *)
(***************************************************************************)
MaxThreads == 2

MaxDocs == 3

SEGMENT_ROLL == 2

QUEUE_CAPACITY == 1

\* Longest query made of arbitrary characters, and most literals in a query
\* made of well-formed literals.
MaxQueryLen == 4

MaxLiterals == 3

VARIABLES
    num_threads,   \* argument of IndexWriter::open
    sender,        \* queue_input: "alive" or "dropped"
    queue,         \* documents buffered in the sync_channel
    lock,          \* holder of the Mutex<Receiver>: a worker, or 0
    caller,        \* the thread owning the IndexWriter
    calls,         \* one record per IndexWriter::add_document call that returned
    pc,            \* per worker: position in the thread closure
    iter,          \* per worker: i of `for i in 0..500`
    docs_remaining,\* per worker: the flag of the while loop
    doc,           \* per worker: the document received last
    segs,          \* per worker: the SegmentWriters it created, current one last
    default_fields,\* QueryParser.default_fields
    query,         \* argument of the parser call made
    parsed         \* the call made on the parser and what it returned

writer_vars == <<num_threads, sender, queue, lock, caller, calls,
                 pc, iter, docs_remaining, doc, segs>>

parser_vars == <<default_fields, query, parsed>>

vars == <<num_threads, sender, queue, lock, caller, calls,
          pc, iter, docs_remaining, doc, segs, default_fields, query, parsed>>

(***************************************************************************)
(* Sequence helpers.                                                       *)
(***************************************************************************)
RECURSIVE Concat(_)
Concat(ss) == IF ss = <<>> THEN <<>> ELSE Head(ss) \o Concat(Tail(ss))

RECURSIVE SumSeq(_)
SumSeq(s) == IF s = <<>> THEN 0 ELSE Head(s) + SumSeq(Tail(s))

(***************************************************************************)
(* Schema, documents, tokenizer, terms: collaborators of writer.rs.        *)
(***************************************************************************)
\* Text is a sequence of one-character strings.
Alphanumeric == {"a", "b", "7"}

NoDoc == [id |-> 0, kind |-> "none"]

\* field ordinal -> options.  1: indexed, tokenized and stored text;
\* 2: stored-only text; 3: indexed fast u32.
TextFieldOptions(field) ==
    CASE field = 1 -> [indexed |-> TRUE, tokenized |-> TRUE, stored |-> TRUE]
      [] field = 2 -> [indexed |-> FALSE, tokenized |-> FALSE, stored |-> TRUE]
      [] OTHER -> [indexed |-> TRUE, tokenized |-> TRUE, stored |-> FALSE]

U32FieldOptions(field) == [indexed |-> TRUE, fast |-> TRUE]

is_tokenized_indexed(opts) == opts.indexed /\ opts.tokenized

\* The documents a caller submits: one with an indexed and stored text field
\* and a stored-only text field, one with a u32 field and nothing to store.
DocKinds == {"text", "u32"}

text_fields(kind) ==
    CASE kind = "text" -> << [field |-> 1, text |-> <<"a", " ", "b">>],
                            [field |-> 2, text |-> <<"7", "a">>] >>
      [] OTHER -> <<>>

u32_fields(kind) ==
    CASE kind = "u32" -> << [field |-> 3, value |-> 258] >>
      [] OTHER -> <<>>

\* SimpleTokenizer: the maximal runs of alphanumeric characters.
RECURSIVE TokenizeFrom(_, _)
TokenizeFrom(text, cur) ==
    IF text = <<>> THEN (IF cur = <<>> THEN <<>> ELSE <<cur>>)
    ELSE IF Head(text) \in Alphanumeric
         THEN TokenizeFrom(Tail(text), Append(cur, Head(text)))
         ELSE (IF cur = <<>> THEN <<>> ELSE <<cur>>) \o TokenizeFrom(Tail(text), <<>>)

tokenize(text) == TokenizeFrom(text, <<>>)

from_field_text(field, token) == <<field, token>>

\* The payload of a u32 term is its four big-endian bytes.
from_field_u32(field, value) ==
    <<field, << (value \div 16777216) % 256, (value \div 65536) % 256,
                (value \div 256) % 256, value % 256 >> >>

(***************************************************************************)
(* The query parser (src/query/query_parser.rs).  A parser of the grammar  *)
(* is an operator of the input s and the position p of the next character  *)
(* to read; it returns whether it succeeded, whether it consumed input,    *)
(* the position it stopped at and its value.  The combinators are those of *)
(* the combine crate: an alternative is tried only when the first parser   *)
(* failed without consuming input, and `try` makes a failure look as if    *)
(* nothing was consumed.                                                   *)
(***************************************************************************)
Letters == {"a", "b"}

Whitespace == {" "}

Quote == "\""

Colon == ":"

\* The characters of the queries: alphanumerics, a space, the double quote,
\* the colon, and one character of no class of the grammar.
QueryChars == Alphanumeric \cup Whitespace \cup {Quote, Colon, "!"}

NotQuote == QueryChars \ {Quote}

\* Schema::get_field on a schema with the text fields "a" (1) and "ab" (2).
NoField == 0

get_field(field_name) ==
    CASE field_name = <<"a">> -> 1
      [] field_name = <<"a", "b">> -> 2
      [] OTHER -> NoField

ParseOk(consumed, pos, val) ==
    [ok |-> TRUE, consumed |-> consumed, pos |-> pos, val |-> val]

ParseErr(consumed, pos) ==
    [ok |-> FALSE, consumed |-> consumed, pos |-> pos, val |-> <<>>]

\* Where the run of characters of class at p ends.
RECURSIVE RunEnd(_, _, _)
RunEnd(s, p, class) ==
    IF p <= Len(s) /\ s[p] \in class THEN RunEnd(s, p + 1, class) ELSE p

Many1Upto(s, p, e) ==
    IF e = p THEN ParseErr(FALSE, p) ELSE ParseOk(TRUE, e, SubSeq(s, p, e - 1))

\* many1(satisfy(class)): fails without consuming when the first character
\* is not of the class.
Many1(s, p, class) == Many1Upto(s, p, RunEnd(s, p, class))

\* char(c)
Char(s, p, c) ==
    IF p <= Len(s) /\ s[p] = c THEN ParseOk(TRUE, p + 1, c) ELSE ParseErr(FALSE, p)

\* a.or(b): b is tried only when a failed without consuming.
Or(a, b) == IF a.ok \/ a.consumed THEN a ELSE b

\* try(a): a failure of a consumes nothing.
Try(a) == IF a.ok THEN a ELSE ParseErr(FALSE, a.pos)

\* Line 127: many1(satisfy(|c| c.is_alphanumeric())).
word(s, p) == Many1(s, p, Alphanumeric)

\* Lines 128-130: (char('"'), many1(satisfy(|c| c != '"')), char('"')), one
\* parser of the tuple after the other; the value is that of the middle one.
PhraseAfterClose(inner, close) ==
    IF close.ok THEN ParseOk(TRUE, close.pos, inner.val) ELSE ParseErr(TRUE, close.pos)

PhraseAfterInner(s, inner) ==
    IF inner.ok THEN PhraseAfterClose(inner, Char(s, inner.pos, Quote))
    ELSE ParseErr(TRUE, inner.pos)

PhraseAfterOpen(s, p, open) ==
    IF open.ok THEN PhraseAfterInner(s, Many1(s, open.pos, NotQuote))
    ELSE ParseErr(FALSE, p)

phrase(s, p) == PhraseAfterOpen(s, p, Char(s, p, Quote))

\* Line 131: phrase.or(word).
term_val(s, p) == Or(phrase(s, p), word(s, p))

\* A field name of alphanumerics.
FieldChars_Alphanumeric == Alphanumeric

\* Line 134: letter().
FieldChars == Letters

\* Line 134: many1(letter()).
field(s, p) == Many1(s, p, FieldChars)

WithField(field_name, val) == [kind |-> "WithField", field |-> field_name, val |-> val]

DefaultField(val) == [kind |-> "DefaultField", field |-> <<>>, val |-> val]

\* Lines 135-136: (field, char(':'), term_val()) mapped to WithField, one
\* parser of the tuple after the other.
TermQueryAfterValue(f, v) ==
    IF v.ok THEN ParseOk(TRUE, v.pos, WithField(f.val, v.val)) ELSE ParseErr(TRUE, v.pos)

TermQueryAfterColon(s, f, c) ==
    IF c.ok THEN TermQueryAfterValue(f, term_val(s, c.pos)) ELSE ParseErr(TRUE, c.pos)

TermQueryAfterField(s, p, f) ==
    IF f.ok THEN TermQueryAfterColon(s, f, Char(s, f.pos, Colon)) ELSE ParseErr(FALSE, p)

term_query(s, p) == TermQueryAfterField(s, p, field(s, p))

MapDefaultField(v) ==
    IF v.ok THEN ParseOk(v.consumed, v.pos, DefaultField(v.val)) ELSE v

\* Line 137: term_val().map(Literal::DefaultField).
term_default_field(s, p) == MapDefaultField(term_val(s, p))

\* Lines 138-139: try(term_query).or(term_default_field).
literal(s, p) == Or(Try(term_query(s, p)), term_default_field(s, p))

SpacesUpto(p, e) == ParseOk(e > p, e, <<>>)

\* spaces(): zero or more whitespace characters; it always succeeds.
spaces(s, p) == SpacesUpto(p, RunEnd(s, p, Whitespace))

\* a.with(b): both in sequence, the value of b.
With(a, b) ==
    IF b.ok THEN ParseOk(a.consumed \/ b.consumed, b.pos, b.val)
    ELSE ParseErr(a.consumed \/ b.consumed, b.pos)

LiteralAfter(s, sep) == With(sep, literal(s, sep.pos))

\* spaces().with(literal()): the item sep_by repeats after the first literal.
SeparatedLiteral(s, p) == LiteralAfter(s, spaces(s, p))

\* The iteration of sep_by from p on, after the literals collected: it ends
\* well at the first item that fails without consuming, and fails when an
\* item fails after consuming.
RECURSIVE SepByRest(_, _, _)
SepByItem(s, p, collected, item) ==
    IF item.ok THEN SepByRest(s, item.pos, Append(collected, item.val))
    ELSE IF item.consumed THEN ParseErr(TRUE, item.pos)
    ELSE ParseOk(TRUE, p, collected)

SepByRest(s, p, collected) == SepByItem(s, p, collected, SeparatedLiteral(s, p))

SepByFirst(s, p, first) ==
    IF first.ok THEN SepByRest(s, first.pos, <<first.val>>)
    ELSE IF first.consumed THEN ParseErr(TRUE, first.pos)
    ELSE ParseOk(FALSE, p, <<>>)

\* Line 142: sep_by(literal(), spaces()): zero literals when the first one
\* fails without consuming.
sep_by(s, p) == SepByFirst(s, p, literal(s, p))

\* eof()
eof(s, p) == p > Len(s)

NotCalled == [call |-> "none", status |-> "none", literals |-> <<>>,
              terms |-> <<>>, name |-> <<>>]

Returned(call, status, literals, terms, name) ==
    [call |-> call, status |-> status, literals |-> literals,
     terms |-> terms, name |-> name]

ThenEof(input, r) ==
    IF r.ok /\ eof(input, r.pos)
    THEN Returned("query_language", "Ok", r.val, <<>>, <<>>)
    ELSE Returned("query_language", "SyntaxError", <<>>, <<>>, <<>>)

\* Lines 123-144: (sep_by(literal(), spaces()), eof()) on the whole input.
query_language(input) == ThenEof(input, sep_by(input, 1))

\* str::trim: the input without its leading and trailing whitespace.
RECURSIVE TrimEnd(_)
TrimEnd(s) ==
    IF s # <<>> /\ s[Len(s)] \in Whitespace THEN TrimEnd(SubSeq(s, 1, Len(s) - 1)) ELSE s

trim(s) == TrimEnd(SubSeq(s, RunEnd(s, 1, Whitespace), Len(s)))

TermsOfTokens(fld, tokens) ==
    [k \in 1..Len(tokens) |-> from_field_text(fld, tokens[k])]

\* Lines 49-62: one Term per token, in the order of the tokens.
compute_terms(fld, text) == TermsOfTokens(fld, tokenize(text))

TokenMajorTerms(fields, tokens) ==
    Concat([k \in 1..Len(tokens) |->
               [j \in 1..Len(fields) |-> from_field_text(fields[j], tokens[k])]])

\* A parser that takes each token to every default field in turn.
DefaultFieldTerms_TokenMajor(fields, val) == TokenMajorTerms(fields, tokenize(val))

\* Lines 78-84: the terms of the value for each default field in turn.
DefaultFieldTerms(fields, val) ==
    Concat([j \in 1..Len(fields) |-> compute_terms(fields[j], val)])

\* A parser that ignores a literal on a field the schema does not have.
WithFieldTerms_Lenient(field_name, val) ==
    IF get_field(field_name) = NoField
    THEN [ok |-> TRUE, terms |-> <<>>, name |-> <<>>]
    ELSE [ok |-> TRUE, terms |-> compute_terms(get_field(field_name), val), name |-> <<>>]

\* Lines 86-91: the match on schema.get_field.
WithFieldTerms(field_name, val) ==
    IF get_field(field_name) = NoField
    THEN [ok |-> FALSE, terms |-> <<>>, name |-> field_name]
    ELSE [ok |-> TRUE, terms |-> compute_terms(get_field(field_name), val), name |-> <<>>]

\* QueryParser::transform_literal
transform_literal(fields, lit) ==
    IF lit.kind = "DefaultField"
    THEN [ok |-> TRUE, terms |-> DefaultFieldTerms(fields, lit.val), name |-> <<>>]
    ELSE WithFieldTerms(lit.field, lit.val)

\* Lines 98-101: the loop over the literals; try! returns at the first Err.
RECURSIVE TransformLiterals(_, _, _)
ExtendTerms(fields, literals, terms_result, literal_terms) ==
    IF literal_terms.ok
    THEN TransformLiterals(fields, Tail(literals), terms_result \o literal_terms.terms)
    ELSE Returned("parse_query", "FieldDoesNotExist", <<>>, <<>>, literal_terms.name)

TransformLiterals(fields, literals, terms_result) ==
    IF literals = <<>>
    THEN Returned("parse_query", "Ok", <<>>, terms_result, <<>>)
    ELSE ExtendTerms(fields, literals, terms_result,
                     transform_literal(fields, Head(literals)))

ParseQueryMatch(fields, r) ==
    IF r.status = "Ok"
    THEN TransformLiterals(fields, r.literals, <<>>)
    ELSE Returned("parse_query", "SyntaxError", <<>>, <<>>, <<>>)

\* QueryParser::parse_query; the terms are those handed to MultiTermQuery::new.
parse_query(fields, input) == ParseQueryMatch(fields, query_language(trim(input)))

\* The queries of arbitrary characters.
CharQueries == UNION {[1..n -> QueryChars] : n \in 0..MaxQueryLen}

\* Well-formed literals: on the fields "a" and "ab" of the schema, on the
\* names "b" and "ba" it does not have, and on the default fields.
LiteralTexts ==
    { <<"a", ":", "b", "7">>,
      <<"a", "b", ":", Quote, "a", ":", "b", Quote>>,
      <<"b", ":", "a">>,
      <<"b", "a", ":", "7">>,
      <<"a", "7">>,
      <<Quote, "b", "!", "a", Quote>> }

\* What stands between two literals: one space, or nothing.
Gaps == { <<" ">>, <<>> }

\* The queries of one to n well-formed literals.
RECURSIVE LiteralQueries(_)
LiteralQueries(n) ==
    IF n <= 1 THEN LiteralTexts
    ELSE LET shorter == LiteralQueries(n - 1)
         IN shorter \cup {q \o g \o l : q \in shorter, g \in Gaps, l \in LiteralTexts}

Queries == CharQueries \cup LiteralQueries(MaxLiterals)

\* The default fields a QueryParser is made with.
DefaultFieldChoices == { <<>>, <<1>>, <<1, 2>>, <<2, 1>> }

(***************************************************************************)
(* SegmentWriter.  A writer is a record: the segment it writes, max_doc,   *)
(* the number of rows of the fast-field columns, its state, and the log of *)
(* the calls it made on its PostingsWriter, its U32FastFieldsWriter and    *)
(* its SegmentSerializer, in the order they were made.                     *)
(***************************************************************************)
Event(op, doc_id, d, arg, ok) ==
    [op |-> op, doc_id |-> doc_id, doc |-> d, arg |-> arg, ok |-> ok]

\* SegmentWriter::for_segment
for_segment(segment) ==
    [segment |-> segment, max_doc |-> 0, ff_len |-> 0, log |-> <<>>, state |-> "open"]

\* The suscribe calls of one text field value (lines 165-179).
TextSuscriptions(doc_id, d, field_value) ==
    IF is_tokenized_indexed(TextFieldOptions(field_value.field))
    THEN LET tokens == tokenize(field_value.text)
         IN [k \in 1..Len(tokens) |->
                Event("suscribe", doc_id, d.id,
                      from_field_text(field_value.field, tokens[k]), TRUE)]
    ELSE <<>>

\* The suscribe calls of one u32 field value (lines 180-186).
U32Suscriptions(doc_id, d, field_value) ==
    IF U32FieldOptions(field_value.field).indexed
    THEN << Event("suscribe", doc_id, d.id,
                  from_field_u32(field_value.field, field_value.value), TRUE) >>
    ELSE <<>>

\* The text field values handed to store_doc (lines 187-189).
StoredFieldValues(d) ==
    SelectSeq(text_fields(d.kind), LAMBDA fv : TextFieldOptions(fv.field).stored)

\* An add_document that calls store_doc only when there is a value to store.
StoreDocCalls_SkipEmpty(doc_id, d, store_ok) ==
    IF StoredFieldValues(d) = <<>> THEN <<>>
    ELSE << Event("store_doc", doc_id, d.id, StoredFieldValues(d), store_ok) >>

\* The store_doc call of add_document (line 191): made for every document,
\* with the stored text field values, which may be none.
StoreDocCalls(doc_id, d, store_ok) ==
    << Event("store_doc", doc_id, d.id, StoredFieldValues(d), store_ok) >>

\* The DocId SegmentWriter::add_document works with (line 164).
AddDocId(sw) == sw.max_doc

\* An add_document that forgets to count the document.
AddMaxDoc_NoIncrement(sw) == sw.max_doc

\* max_doc after a successful add_document (line 192).
AddMaxDoc(sw) == sw.max_doc + 1

\* SegmentWriter::add_document; store_ok is whether store_doc succeeds.
\* Returns the writer afterwards and the io::Result.
add_document(sw, d, store_ok) ==
    LET doc_id == AddDocId(sw)
        tf == text_fields(d.kind)
        uf == u32_fields(d.kind)
        subs == Concat([k \in 1..Len(tf) |-> TextSuscriptions(doc_id, d, tf[k])])
                \o Concat([k \in 1..Len(uf) |-> U32Suscriptions(doc_id, d, uf[k])])
        events == subs
                  \o << Event("ff_add_document", doc_id, d.id, <<>>, TRUE) >>
                  \o StoreDocCalls(doc_id, d, store_ok)
        after == [sw EXCEPT !.log = sw.log \o events, !.ff_len = sw.ff_len + 1]
    IN IF store_ok
       THEN [sw |-> [after EXCEPT !.max_doc = AddMaxDoc(sw)], res |-> "Ok"]
       ELSE [sw |-> after, res |-> "Err"]

\* Where an I/O error may hit SegmentWriter::finalize.
FinalizeFailures == {"none", "postings", "segment_info", "close"}

\* A finalize that ignores the results instead of returning early.
FinalizeCalls_NoEarlyReturn(sw, fail_at) ==
    << Event("postings_serialize", -1, 0, <<>>, fail_at # "postings"),
       Event("write_segment_info", -1, 0, <<sw.max_doc>>, fail_at # "segment_info"),
       Event("close", -1, 0, <<>>, fail_at # "close") >>

\* The serializer calls of SegmentWriter::finalize when the first error, if
\* any, is at fail_at (lines 138-145: each try! returns early).
FinalizeCalls(sw, fail_at) ==
    << Event("postings_serialize", -1, 0, <<>>, fail_at # "postings") >>
    \o (IF fail_at = "postings" THEN <<>>
        ELSE << Event("write_segment_info", -1, 0, <<sw.max_doc>>, fail_at # "segment_info") >>
             \o (IF fail_at = "segment_info" THEN <<>>
                 ELSE << Event("close", -1, 0, <<>>, fail_at # "close") >>))

\* SegmentWriter::finalize consumes the writer.
finalize(sw, fail_at) ==
    [sw |-> [sw EXCEPT !.log = sw.log \o FinalizeCalls(sw, fail_at),
                       !.state = IF fail_at = "none" THEN "finalized" ELSE "finalize_failed"],
     res |-> IF fail_at = "none" THEN "Ok" ELSE "Err"]

(***************************************************************************)
(* IndexWriter: the channel, the caller and the worker threads.            *)
(***************************************************************************)
Workers == 1..num_threads

Terminated(w) == pc[w] \in {"exited", "panicked"}

\* The Receiver is owned by the Arc the worker closures share (lines 37-39):
\* it exists while a worker thread does.
ReceiverAlive == \E w \in Workers : ~Terminated(w)

\* The channel's buffer once worker w has terminated: dropping the last
\* clone of the Arc drops the Receiver and what the channel still buffers.
QueueAfterExit(w) ==
    IF \A v \in Workers \ {w} : Terminated(v) THEN <<>> ELSE queue

\* A channel that lets one send more through than its capacity.
CanEnqueue_OffByOne(q) == Len(q) <= QUEUE_CAPACITY

\* mpsc::sync_channel(10_000): a send goes through while the buffer has room.
CanEnqueue(q) == Len(q) < QUEUE_CAPACITY

\* A recv that reports the disconnection as soon as the sender is gone,
\* whatever the buffer still holds.
RecvDisconnected_NoDrain(q, s) == s = "dropped"

\* queue.recv() fails once the sender is gone and the buffer is drained.
RecvDisconnected(q, s) == s = "dropped" /\ q = <<>>

\* An inclusive range, `0..=500`.
LoopDone_OffByOne(i) == i > SEGMENT_ROLL

\* `for i in 0..500`: the loop is over when i reaches the bound.
LoopDone(i) == i >= SEGMENT_ROLL

\* An add_document that hands the failure of send back to its caller.
AddDocumentResult_Propagate(send_result) == send_result

\* What IndexWriter::add_document returns given the result of send (lines 95-96).
AddDocumentResult(send_result) == "Ok"

\* A recv that hands out the document at the head and leaves it buffered.
QueueAfterRecv_Peek(q) == q

\* The buffer after queue.recv() returned Ok: the head has moved out (line 52).
QueueAfterRecv(q) == Tail(q)

\* A closure without the inner block: the MutexGuard lives to the end of the
\* iteration, across add_document.
LockAfterRecv_Held(w) == w

\* The mutex after the block of lines 50-62: the guard `queue` is dropped at
\* the end of the block (or by the break), so the mutex is free.
LockAfterRecv(w) == 0

\* A loop that does not look at the flag: `loop` instead of `while`.
WhileContinues_Always(remaining) == TRUE

\* `while docs_remaining` (line 44), evaluated after finalize.
WhileContinues(remaining) == remaining

\* A worker that drops the io::Result instead of unwrapping it.
Unwrap_Ignore(res) == "continue"

\* io::Result::unwrap in the worker closure (lines 46, 64, 67).
Unwrap(res) == IF res = "Ok" THEN "continue" ELSE "panic"

\* The writer a worker is working with.
Current(w) == segs[w][Len(segs[w])]

SetCurrent(w, sw) == [segs EXCEPT ![w][Len(segs[w])] = sw]

Idle == [pc |-> "idle", pending |-> NoDoc, join_idx |-> 0]

Init ==
    /\ num_threads \in 0..MaxThreads
    /\ sender = "alive"
    /\ queue = <<>>
    /\ lock = 0
    /\ caller = Idle
    /\ calls = <<>>
    /\ pc = [w \in Workers |-> "new_segment"]
    /\ iter = [w \in Workers |-> 0]
    /\ docs_remaining = [w \in Workers |-> TRUE]
    /\ doc = [w \in Workers |-> NoDoc]
    /\ segs = [w \in Workers |-> <<>>]
    /\ default_fields = <<>>
    /\ query = <<>>
    /\ parsed = NotCalled

\* The kinds the next document submitted may have.  A single worker is fed
\* every sequence of kinds; with more workers, where the interleavings
\* multiply, consecutive documents are of different kinds.
NextKinds ==
    IF num_threads <= 1 \/ calls = <<>> THEN DocKinds
    ELSE DocKinds \ {calls[Len(calls)].kind}

\* The send of document d ends with result r.
SendEnds(d, r) ==
    /\ calls' = Append(calls, [doc |-> d.id, kind |-> d.kind, send |-> r,
                               ret |-> AddDocumentResult(r)])
    /\ queue' = IF r = "Ok" THEN Append(queue, d) ELSE queue
    /\ caller' = Idle

\* IndexWriter::add_document: the send either completes at once or blocks
\* on the full buffer.
AddDocument ==
    /\ caller.pc = "idle"
    /\ Len(calls) < MaxDocs
    /\ \E kind \in NextKinds :
         LET d == [id |-> Len(calls) + 1, kind |-> kind]
         IN IF ~ReceiverAlive THEN SendEnds(d, "Err")
            ELSE IF CanEnqueue(queue) THEN SendEnds(d, "Ok")
            ELSE /\ caller' = [caller EXCEPT !.pc = "send", !.pending = d]
                 /\ UNCHANGED <<calls, queue>>
    /\ UNCHANGED <<num_threads, sender, lock, pc, iter, docs_remaining, doc, segs>>
    /\ UNCHANGED parser_vars

\* The blocked send wakes up: there is room, or the receiver is gone.
SendWakes ==
    /\ caller.pc = "send"
    /\ IF ~ReceiverAlive THEN SendEnds(caller.pending, "Err")
       ELSE /\ CanEnqueue(queue)
            /\ SendEnds(caller.pending, "Ok")
    /\ UNCHANGED <<num_threads, sender, lock, pc, iter, docs_remaining, doc, segs>>
    /\ UNCHANGED parser_vars

\* IndexWriter::wait is entered: the for loop over self.threads starts.
WaitCall ==
    /\ caller.pc = "idle"
    /\ caller' = [caller EXCEPT !.pc = "join", !.join_idx = 1]
    /\ UNCHANGED <<num_threads, sender, queue, lock, calls, pc, iter,
                   docs_remaining, doc, segs>>
    /\ UNCHANGED parser_vars

\* thread.join() returns once that thread has terminated; its result is ignored.
WaitJoin ==
    /\ caller.pc = "join"
    /\ caller.join_idx <= num_threads
    /\ Terminated(caller.join_idx)
    /\ caller' = [caller EXCEPT !.join_idx = @ + 1]
    /\ UNCHANGED <<num_threads, sender, queue, lock, calls, pc, iter,
                   docs_remaining, doc, segs>>
    /\ UNCHANGED parser_vars

\* The loop is over and wait returns: the fields of self that were not
\* moved out, queue_input among them, are dropped at the end of the function.
WaitReturn ==
    /\ caller.pc = "join"
    /\ caller.join_idx > num_threads
    /\ caller' = [caller EXCEPT !.pc = "waited"]
    /\ sender' = "dropped"
    /\ UNCHANGED <<num_threads, queue, lock, calls, pc, iter,
                   docs_remaining, doc, segs>>
    /\ UNCHANGED parser_vars

\* The IndexWriter goes out of scope without wait: its fields are dropped,
\* the worker threads are detached.
DropWriter ==
    /\ caller.pc = "idle"
    /\ caller' = [caller EXCEPT !.pc = "dropped"]
    /\ sender' = "dropped"
    /\ UNCHANGED <<num_threads, queue, lock, calls, pc, iter,
                   docs_remaining, doc, segs>>
    /\ UNCHANGED parser_vars

\* An unwrap of an Err panics: the thread ends, its closure is dropped.
Panic(w) ==
    /\ pc' = [pc EXCEPT ![w] = "panicked"]
    /\ queue' = QueueAfterExit(w)

\* Lines 45-46: a new segment and its writer; then the for loop is entered.
NewSegment(w) ==
    /\ pc[w] = "new_segment"
    /\ \E res \in {"Ok", "Err"} :
         IF Unwrap(res) = "continue"
         THEN /\ segs' = [segs EXCEPT ![w] = Append(@, for_segment(<<w, Len(@) + 1>>))]
              /\ iter' = [iter EXCEPT ![w] = 0]
              /\ pc' = [pc EXCEPT ![w] = IF LoopDone(0) THEN "finalize" ELSE "lock"]
              /\ UNCHANGED queue
         ELSE /\ Panic(w)
              /\ UNCHANGED <<segs, iter>>
    /\ UNCHANGED <<num_threads, sender, lock, caller, calls, docs_remaining, doc>>
    /\ UNCHANGED parser_vars

\* Line 51: queue_output_clone.lock().
Lock(w) ==
    /\ pc[w] = "lock"
    /\ lock = 0
    /\ lock' = w
    /\ pc' = [pc EXCEPT ![w] = "recv"]
    /\ UNCHANGED <<num_threads, sender, queue, caller, calls, iter,
                   docs_remaining, doc, segs>>
    /\ UNCHANGED parser_vars

\* Lines 52-62: queue.recv() under the lock; the guard is released at the
\* end of the block, or by the break.
Recv(w) ==
    /\ pc[w] = "recv"
    /\ IF RecvDisconnected(queue, sender)
       THEN /\ docs_remaining' = [docs_remaining EXCEPT ![w] = FALSE]
            /\ pc' = [pc EXCEPT ![w] = "finalize"]
            /\ UNCHANGED <<doc, queue>>
       ELSE /\ queue # <<>>
            /\ doc' = [doc EXCEPT ![w] = Head(queue)]
            /\ queue' = QueueAfterRecv(queue)
            /\ pc' = [pc EXCEPT ![w] = "add"]
            /\ UNCHANGED docs_remaining
    /\ lock' = LockAfterRecv(w)
    /\ UNCHANGED <<num_threads, sender, caller, calls, iter, segs>>
    /\ UNCHANGED parser_vars

\* Line 64: segment_writer.add_document(&*doc, &schema_clone).unwrap().
Add(w) ==
    /\ pc[w] = "add"
    /\ \E store_ok \in BOOLEAN :
         LET r == add_document(Current(w), doc[w], store_ok)
         IN IF Unwrap(r.res) = "continue"
            THEN /\ segs' = SetCurrent(w, r.sw)
                 /\ iter' = [iter EXCEPT ![w] = @ + 1]
                 /\ pc' = [pc EXCEPT ![w] = IF LoopDone(iter[w] + 1) THEN "finalize"
                                                                     ELSE "lock"]
                 /\ UNCHANGED queue
            ELSE /\ segs' = SetCurrent(w, [r.sw EXCEPT !.state = "poisoned"])
                 /\ Panic(w)
                 /\ UNCHANGED iter
    /\ doc' = [doc EXCEPT ![w] = NoDoc]
    /\ UNCHANGED <<num_threads, sender, lock, caller, calls, docs_remaining>>
    /\ UNCHANGED parser_vars

\* Line 67: segment_writer.finalize().unwrap(), then the while condition.
Finalize(w) ==
    /\ pc[w] = "finalize"
    /\ \E fail_at \in FinalizeFailures :
         LET r == finalize(Current(w), fail_at)
         IN /\ segs' = SetCurrent(w, r.sw)
            /\ IF Unwrap(r.res) = "continue"
               THEN IF WhileContinues(docs_remaining[w])
                    THEN /\ pc' = [pc EXCEPT ![w] = "new_segment"]
                         /\ UNCHANGED queue
                    ELSE /\ pc' = [pc EXCEPT ![w] = "exited"]
                         /\ queue' = QueueAfterExit(w)
               ELSE Panic(w)
    /\ UNCHANGED <<num_threads, sender, lock, caller, calls, iter, docs_remaining, doc>>
    /\ UNCHANGED parser_vars

Next ==
    \/ AddDocument
    \/ SendWakes
    \/ WaitCall
    \/ WaitJoin
    \/ WaitReturn
    \/ DropWriter
    \/ \E w \in Workers : NewSegment(w)
    \/ \E w \in Workers : Lock(w)
    \/ \E w \in Workers : Recv(w)
    \/ \E w \in Workers : Add(w)
    \/ \E w \in Workers : Finalize(w)

Spec == Init /\ [][Next]_vars

\* One step of worker thread w (the closure of lines 42-72).
WorkerStep(w) ==
    /\ w \in Workers
    /\ NewSegment(w) \/ Lock(w) \/ Recv(w) \/ Add(w) \/ Finalize(w)

\* Fair scheduling: a thread that can run does run, segment operations
\* terminate, and a blocked send is woken once the channel lets it through.
\* The mutex is not fair, so a thread waiting for it has weak fairness only.
FairSpec ==
    /\ Spec
    /\ WF_vars(SendWakes)
    /\ \A w \in 1..MaxThreads : WF_vars(WorkerStep(w))

(***************************************************************************)
(* The query parser as a state machine: a QueryParser is made with its     *)
(* default fields, then one call is made, of parse_query or of the public  *)
(* function query_language.                                                *)
(***************************************************************************)
\* QueryParser::new, with no IndexWriter at work.
ParserInit ==
    /\ num_threads = 0
    /\ sender = "alive"
    /\ queue = <<>>
    /\ lock = 0
    /\ caller = Idle
    /\ calls = <<>>
    /\ pc = <<>>
    /\ iter = <<>>
    /\ docs_remaining = <<>>
    /\ doc = <<>>
    /\ segs = <<>>
    /\ default_fields \in DefaultFieldChoices
    /\ query = <<>>
    /\ parsed = NotCalled

\* A call of QueryParser::parse_query.
ParseQuery ==
    /\ parsed.call = "none"
    /\ \E input \in Queries :
         /\ query' = input
         /\ parsed' = parse_query(default_fields, input)
    /\ UNCHANGED default_fields
    /\ UNCHANGED writer_vars

\* A call of query_language on the whole input, as the tests make it.
QueryLanguage ==
    /\ parsed.call = "none"
    /\ \E input \in Queries :
         /\ query' = input
         /\ parsed' = query_language(input)
    /\ UNCHANGED default_fields
    /\ UNCHANGED writer_vars

ParserNext ==
    \/ ParseQuery
    \/ QueryLanguage

ParserSpec == ParserInit /\ [][ParserNext]_vars

(***************************************************************************)
(* Properties.                                                             *)
(***************************************************************************)
\* Every SegmentWriter created so far, as <<worker, index>>.
Writers == UNION {{<<w, k>> : k \in 1..Len(segs[w])} : w \in Workers}

Writer(x) == segs[x[1]][x[2]]

\* Number of successful store_doc calls among the first n calls of a log,
\* that is, of add_document calls that returned Ok.
AddedBefore(log, n) ==
    Cardinality({q \in 1..n : log[q].op = "store_doc" /\ log[q].ok})

AllExited == \A w \in Workers : pc[w] = "exited"

\* Sum of max_doc over the segments whose finalize returned Ok.
FinalizedMaxDocs(w) ==
    SumSeq([k \in 1..Len(segs[w]) |->
               IF segs[w][k].state = "finalized" THEN segs[w][k].max_doc ELSE 0])

TotalFinalizedMaxDoc == SumSeq([w \in Workers |-> FinalizedMaxDocs(w)])

\* C1: while wait joins a worker thread, the input side of the queue has
\* already been closed (so that the worker can see the closed channel and
\* exit, and wait can return).
C1_InputClosedBeforeJoin ==
    (caller.pc = "join" /\ caller.join_idx <= num_threads) => sender = "dropped"

\* C2: with at least one worker and no I/O failure, once the input side is
\* closed and every worker has exited, the max_doc of the finalized segments
\* sum up to the number of documents submitted.
C2_AllDocumentsDrained ==
    (num_threads >= 1 /\ sender = "dropped" /\ AllExited)
        => TotalFinalizedMaxDoc = Len(calls)

C2_Witness ==
    /\ num_threads = MaxThreads
    /\ sender = "dropped"
    /\ AllExited
    /\ Len(calls) = MaxDocs
    /\ \A w \in Workers : FinalizedMaxDocs(w) >= 1

C3_QueueBounded ==
    /\ Len(queue) <= QUEUE_CAPACITY
    /\ caller.pc = "send" =>
          /\ caller.pending.id = Len(calls) + 1
          /\ \A q \in 1..Len(queue) : queue[q].id # caller.pending.id

\* C3 as stated: the queue never exceeds its capacity, and a sender blocked
\* on the full queue returns only with its document enqueued.
C3_BlockedSendAlwaysEnqueues ==
    /\ C3_QueueBounded
    /\ [][/\ C3_QueueBounded'
          /\ (caller.pc = "send" /\ caller'.pc # "send") =>
                queue' = Append(queue, caller.pending)]_vars

\* C3, amended: the queue never exceeds its capacity; a sender blocked on
\* the full queue has neither returned nor enqueued its document; while a
\* worker lives it stays blocked as long as the queue is full and leaves only
\* by enqueueing its document; it returns without enqueueing only when the
\* receive side no longer exists.
C3_Backpressure ==
    /\ C3_QueueBounded
    /\ [][/\ C3_QueueBounded'
          /\ (caller.pc = "send" /\ caller'.pc # "send") =>
                IF ReceiverAlive
                THEN /\ Len(queue) < QUEUE_CAPACITY
                     /\ queue' = Append(queue, caller.pending)
                     /\ calls'[Len(calls')].send = "Ok"
                ELSE /\ queue' = queue
                     /\ calls'[Len(calls')].send = "Err"]_vars

\* The sender is blocked on the full queue while a worker lives.
C3_Witness ==
    /\ caller.pc = "send"
    /\ Len(queue) = QUEUE_CAPACITY
    /\ ReceiverAlive
    /\ \E w \in Workers : pc[w] = "add"

\* C4: no segment, in progress or finished, holds more than SEGMENT_ROLL
\* documents.
C4_MaxDocAtMostSegmentRoll ==
    \A x \in Writers :
        /\ Writer(x).max_doc <= SEGMENT_ROLL
        /\ AddedBefore(Writer(x).log, Len(Writer(x).log)) <= SEGMENT_ROLL

C4_Witness ==
    \E w \in Workers :
        /\ Len(segs[w]) >= 2
        /\ segs[w][1].max_doc = SEGMENT_ROLL
        /\ segs[w][1].state = "finalized"

AddOps == {"suscribe", "ff_add_document", "store_doc"}

FinalizeOps == {"postings_serialize", "write_segment_info", "close"}

\* C5, in one state: every call add_document makes for its k-th successful
\* document (from 0) carries docId k, and max_doc is the number of
\* successful add_document calls.
C5_DocIdsInState ==
    \A x \in Writers :
        LET log == Writer(x).log
        IN /\ \A q \in 1..Len(log) :
                log[q].op \in AddOps => log[q].doc_id = AddedBefore(log, q - 1)
           /\ Writer(x).max_doc = AddedBefore(log, Len(log))

\* C5: DocIds are the contiguous range [0, max_doc), and a step leaves the
\* max_doc of a writer as it is or adds exactly 1 to it, the latter exactly
\* when an add_document on it succeeded.
C5_DocIdsContiguous ==
    /\ C5_DocIdsInState
    /\ [][/\ C5_DocIdsInState'
          /\ \A x \in Writers :
                LET before == Writer(x)
                    after == segs'[x[1]][x[2]]
                    added == AddedBefore(after.log, Len(after.log))
                             - AddedBefore(before.log, Len(before.log))
                IN /\ added \in {0, 1}
                   /\ after.max_doc = before.max_doc + added]_vars

C5_Witness ==
    \E x \in Writers :
        /\ Writer(x).max_doc = SEGMENT_ROLL
        /\ \E q \in 1..Len(Writer(x).log) :
              /\ Writer(x).log[q].op = "suscribe"
              /\ Writer(x).log[q].doc_id = SEGMENT_ROLL - 1

\* C6: in every segment, close is preceded by the serialization of the
\* fast fields.
C6_FastFieldsSerializedBeforeClose ==
    \A x \in Writers :
        LET log == Writer(x).log
        IN \A q \in 1..Len(log) :
              log[q].op = "close" =>
                  \E r \in 1..(q - 1) : log[r].op = "fast_field_serialize"

\* C7: finalize calls postings serialization, then write_segment_info with
\* max_doc the number of successful add_document calls, then close, which is
\* the last call on the serializer; a call that fails is the last one, and
\* finalize then returns the error.
C7_FinalizeOrder ==
    \A x \in Writers :
        LET sw == Writer(x)
            log == sw.log
            n == Len(log)
        IN /\ \A q \in 1..n :
                /\ log[q].op = "postings_serialize" =>
                      \A r \in 1..n : (log[r].op \in FinalizeOps) = (r >= q)
                /\ log[q].op = "write_segment_info" =>
                      /\ q > 1
                      /\ log[q - 1].op = "postings_serialize"
                      /\ log[q].arg = <<AddedBefore(log, n)>>
                /\ log[q].op = "close" =>
                      /\ q = n
                      /\ q > 1
                      /\ log[q - 1].op = "write_segment_info"
                /\ (log[q].op \in FinalizeOps /\ ~log[q].ok) => q = n
           /\ sw.state = "finalized" =>
                (n >= 3 /\ log[n].op = "close" /\ log[n].ok)
           /\ sw.state = "finalize_failed" =>
                (n >= 1 /\ log[n].op \in FinalizeOps /\ ~log[n].ok)
           /\ sw.state \in {"open", "poisoned"} =>
                \A q \in 1..n : log[q].op \notin FinalizeOps

C7_Witness ==
    \E x, y \in Writers :
        /\ Writer(x).state = "finalized"
        /\ Writer(x).max_doc = SEGMENT_ROLL
        /\ Writer(y).state = "finalize_failed"
        /\ Writer(y).log[Len(Writer(y).log)].op = "write_segment_info"

\* C8: in every segment each add_document call makes exactly one store_doc
\* call, right after its fast-field call and for the same document, whether
\* or not the document has a stored field; the successful store_doc calls
\* carry the DocIds 0, 1, 2, ... in this order; and no store_doc follows close.
C8_StoreDocOncePerDocument ==
    \A x \in Writers :
        LET log == Writer(x).log
            n == Len(log)
        IN /\ \A q \in 1..n :
                /\ log[q].op = "ff_add_document" =>
                      /\ q < n
                      /\ log[q + 1].op = "store_doc"
                      /\ log[q + 1].doc = log[q].doc
                /\ log[q].op = "store_doc" =>
                      /\ q > 1
                      /\ log[q - 1].op = "ff_add_document"
                      /\ log[q].doc_id = AddedBefore(log, q - 1)
                      /\ \A r \in 1..n :
                            (log[r].op = "store_doc" /\ log[r].doc = log[q].doc) => r = q
                      /\ \A r \in 1..q : log[r].op # "close"
           /\ Cardinality({q \in 1..n : log[q].op = "store_doc" /\ log[q].ok})
                = Writer(x).max_doc

C8_Witness ==
    \E x \in Writers :
        LET log == Writer(x).log
        IN /\ Writer(x).state = "finalized"
           /\ Writer(x).max_doc = SEGMENT_ROLL
           /\ \E q \in 1..Len(log) :
                 /\ log[q].op = "store_doc"
                 /\ log[q].arg = <<>>
                 /\ log[q].doc_id = 1

\* finalize is being invoked, or has been invoked, on writer x.
FinalizeInvoked(x) ==
    \/ Writer(x).state \in {"finalized", "finalize_failed"}
    \/ x[2] = Len(segs[x[1]]) /\ pc[x[1]] = "finalize"

\* C9: whenever finalize is invoked on a writer, the fast-field columns have
\* as many rows as max_doc: as many fast-field add_document calls were made
\* as documents were added, store_doc failures included.
C9_FastFieldLenIsMaxDoc ==
    \A x \in Writers :
        FinalizeInvoked(x) =>
            /\ Writer(x).ff_len = Writer(x).max_doc
            /\ Cardinality({q \in 1..Len(Writer(x).log) :
                               Writer(x).log[q].op = "ff_add_document"})
                 = Writer(x).max_doc

C9_Witness ==
    \E x, y \in Writers :
        /\ FinalizeInvoked(x)
        /\ Writer(x).max_doc >= 1
        /\ Writer(y).state = "poisoned"
        /\ Writer(y).ff_len = Writer(y).max_doc + 1

\* Document d is in the queue, in a worker's hands or in a segment.
InPipeline(d) ==
    \/ \E q \in 1..Len(queue) : queue[q].id = d
    \/ \E w \in Workers : doc[w].id = d
    \/ \E x \in Writers : \E q \in 1..Len(Writer(x).log) : Writer(x).log[q].doc = d

C10_ReturnsOk ==
    \A k \in 1..Len(calls) :
        /\ calls[k].ret = "Ok"
        /\ calls[k].send = "Err" => ~InPipeline(calls[k].doc)

\* C10: every add_document call returns Ok; a call that ends while no
\* receiver exists (every worker terminated, or none was started) has its
\* send fail, the failure is not reported, and the document is in no queue,
\* no worker's hands and no segment, then and later.
C10_SendErrorSwallowed ==
    /\ C10_ReturnsOk
    /\ [][/\ C10_ReturnsOk'
          /\ (Len(calls') > Len(calls) /\ ~ReceiverAlive) =>
                /\ calls'[Len(calls')].send = "Err"
                /\ calls'[Len(calls')].ret = "Ok"
                /\ queue' = queue]_vars

C10_Witness ==
    /\ num_threads >= 1
    /\ \E k \in 1..Len(calls) : calls[k].send = "Err"
    /\ \E k \in 1..Len(calls) : calls[k].send = "Ok"

\* Number of fast-field add_document calls made for document d on writer x:
\* one per SegmentWriter::add_document call with d.
AddCalls(x, d) ==
    Cardinality({q \in 1..Len(Writer(x).log) :
                    Writer(x).log[q].op = "ff_add_document" /\ Writer(x).log[q].doc = d})

\* Where document d is: positions of the queue, workers holding it, writers
\* it was added to.
QueuePlaces(d) == {q \in 1..Len(queue) : queue[q].id = d}

Holders(d) == {w \in Workers : doc[w].id = d}

AddedTo(d) == {x \in Writers : AddCalls(x, d) >= 1}

\* C15: a document is in the queue, or in the hands of one worker, or added
\* once to one segment, never two of these and never twice; a document a
\* worker holds was taken from the queue and is handed to add_document on
\* that worker's current writer only.
C15_InState ==
    \A d \in 1..(Len(calls) + 1) :
        /\ Cardinality(QueuePlaces(d)) + Cardinality(Holders(d))
              + Cardinality(AddedTo(d)) <= 1
        /\ \A x \in Writers : AddCalls(x, d) <= 1

C15_EachDocumentIndexedOnce ==
    /\ C15_InState
    /\ [][/\ C15_InState'
          /\ \A w \in Workers :
                (doc[w] # NoDoc /\ doc'[w] = NoDoc) =>
                    /\ segs'[w][Len(segs'[w])].log # Current(w).log
                    /\ \A v \in Workers \ {w} : segs'[v] = segs[v]
          /\ \A w \in Workers :
                (doc[w] = NoDoc /\ doc'[w] # NoDoc) =>
                    /\ queue # <<>>
                    /\ doc'[w] = Head(queue)
                    /\ queue' = Tail(queue)]_vars

C15_Witness ==
    \E x, y \in Writers :
        /\ x[1] # y[1]
        /\ \E d \in 1..Len(calls) : AddCalls(x, d) = 1
        /\ \E d \in 1..Len(calls) : AddCalls(y, d) = 1
        /\ \E d \in 1..Len(calls) : Holders(d) # {}

\* C16: the receiver mutex is held exactly by a worker that is inside
\* queue.recv(): never by a worker that is creating a segment, adding a
\* document, finalizing, or that has terminated.
C16_MutexHeldOnlyInRecv ==
    /\ lock \in Workers \cup {0}
    /\ \A w \in Workers : (lock = w) <=> (pc[w] = "recv")

C16_Witness ==
    \E w, v \in Workers :
        /\ w # v
        /\ pc[w] = "add"
        /\ pc[v] = "recv"
        /\ lock = v
        /\ queue # <<>>

\* add_document returned an I/O error on writer x: its store_doc failed.
FailedAdd(x) ==
    \E q \in 1..Len(Writer(x).log) :
        Writer(x).log[q].op = "store_doc" /\ ~Writer(x).log[q].ok

FinalizeCallsOn(x) ==
    {q \in 1..Len(Writer(x).log) : Writer(x).log[q].op \in FinalizeOps}

\* C17, in one state: a writer whose add_document failed has had no
\* serializer call of finalize, and its worker has panicked on it.
C17_InState ==
    \A x \in Writers :
        FailedAdd(x) =>
            /\ FinalizeCallsOn(x) = {}
            /\ Writer(x).state = "poisoned"
            /\ x[2] = Len(segs[x[1]])
            /\ pc[x[1]] = "panicked"

\* C17: a SegmentWriter whose add_document failed is never finalized, and
\* the step in which its worker ends touches no other worker: their
\* position, document and segments are as before, the mutex is not left
\* held, and the channel keeps its buffer while another worker lives.
C17_FailedAddNeverFinalized ==
    /\ C17_InState
    /\ [][/\ C17_InState'
          /\ \A w \in Workers :
                (pc[w] = "add" /\ pc'[w] = "panicked") =>
                    /\ Len(segs'[w]) = Len(segs[w])
                    /\ FailedAdd(<<w, Len(segs[w])>>)'
                    /\ lock' = lock
                    /\ lock # w
                    /\ \A v \in Workers \ {w} :
                          /\ pc'[v] = pc[v]
                          /\ doc'[v] = doc[v]
                          /\ segs'[v] = segs[v]
                          /\ docs_remaining'[v] = docs_remaining[v]
                    /\ (\E v \in Workers \ {w} : ~Terminated(v)) => queue' = queue]_vars

C17_Witness ==
    \E x, y \in Writers :
        /\ x[1] # y[1]
        /\ FailedAdd(x)
        /\ pc[x[1]] = "panicked"
        /\ Writer(y).state = "finalized"
        /\ Writer(y).max_doc >= 1
        /\ pc[y[1]] = "exited"

\* C18, in one state: finalize ran at most once on a writer, no add_document
\* call follows a finalize call, a writer is Open exactly while finalize has
\* not been called on it (and add_document has not failed), only a worker's
\* last writer may be other than Finalized, and a worker that saw the closed
\* channel is finalizing or has ended, its last segment finalized once if
\* it exited.
C18_InState ==
    /\ \A x \in Writers :
          LET log == Writer(x).log
          IN /\ Cardinality({q \in 1..Len(log) : log[q].op = "postings_serialize"}) <= 1
             /\ \A q, r \in 1..Len(log) :
                   (q < r /\ log[q].op \in FinalizeOps) => log[r].op \in FinalizeOps
             /\ (Writer(x).state = "open") <=> (FinalizeCallsOn(x) = {} /\ ~FailedAdd(x))
             /\ (Writer(x).state = "finalized") =>
                   /\ Cardinality(FinalizeCallsOn(x)) = 3
                   /\ \A q \in FinalizeCallsOn(x) : log[q].ok
             /\ x[2] < Len(segs[x[1]]) => Writer(x).state = "finalized"
    /\ \A w \in Workers :
          ~docs_remaining[w] =>
              /\ pc[w] \in {"finalize", "exited", "panicked"}
              /\ segs[w] # <<>>
              /\ pc[w] = "finalize" => segs[w][Len(segs[w])].state = "open"
              /\ pc[w] = "exited" => segs[w][Len(segs[w])].state = "finalized"

\* C18: a SegmentWriter goes from Open to Finalized at most once and is left
\* alone afterwards; a worker that saw the closed channel goes to finalize,
\* creates no further segment, and ends.
C18_FinalizeOnce ==
    /\ C18_InState
    /\ [][/\ C18_InState'
          /\ \A x \in Writers :
                Writer(x).state # "open" => segs'[x[1]][x[2]] = Writer(x)
          /\ \A w \in Workers :
                /\ (docs_remaining[w] /\ ~docs_remaining'[w]) => pc'[w] = "finalize"
                /\ ~docs_remaining[w] =>
                      /\ ~docs_remaining'[w]
                      /\ Len(segs'[w]) = Len(segs[w])]_vars

C18_Witness ==
    \E w \in Workers :
        /\ pc[w] = "exited"
        /\ ~docs_remaining[w]
        /\ Len(segs[w]) >= 2
        /\ segs[w][Len(segs[w])].max_doc >= 1

\* Number of documents worker w has handed to add_document.
Consumed(w) ==
    SumSeq([k \in 1..Len(segs[w]) |->
               Cardinality({q \in 1..Len(segs[w][k].log) :
                               segs[w][k].log[q].op = "ff_add_document"})])

FinalizedSegments(w) ==
    Cardinality({k \in 1..Len(segs[w]) : segs[w][k].state = "finalized"})

\* C19: a worker that consumed k documents and exited on the closed channel
\* has finalized floor(k / SEGMENT_ROLL) + 1 segments: all but the last hold
\* SEGMENT_ROLL documents and the last holds k mod SEGMENT_ROLL (none when k
\* is 0 or a multiple of SEGMENT_ROLL); so when all workers have exited there
\* are at least num_threads finalized segments.
C19_SegmentsPerWorker ==
    /\ \A w \in Workers :
          pc[w] = "exited" =>
              LET k == Consumed(w)
                  n == Len(segs[w])
              IN /\ n = (k \div SEGMENT_ROLL) + 1
                 /\ FinalizedSegments(w) = n
                 /\ \A j \in 1..(n - 1) : segs[w][j].max_doc = SEGMENT_ROLL
                 /\ segs[w][n].max_doc = k % SEGMENT_ROLL
    /\ AllExited => SumSeq([w \in Workers |-> FinalizedSegments(w)]) >= num_threads

\* A worker that consumed a full segment and then finalized an empty one,
\* next to a worker that consumed nothing and finalized an empty one.
C19_Witness ==
    \E w, v \in Workers :
        /\ pc[w] = "exited"
        /\ pc[v] = "exited"
        /\ Consumed(w) = SEGMENT_ROLL
        /\ Len(segs[w]) = 2
        /\ segs[w][2].max_doc = 0
        /\ Consumed(v) = 0
        /\ segs[v][1].max_doc = 0
        /\ segs[v][1].state = "finalized"

\* C20: a send that blocks on the full buffer ends; the step that ends it
\* either enqueues the document into room a live worker made, or fails
\* because every worker thread has terminated and the receiver is gone.
\* With non-blocking sends returning in the step of the call, every
\* add_document call returns.
C20_AddDocumentReturns ==
    /\ (caller.pc = "send") ~> (caller.pc = "idle" /\ calls # <<>>)
    /\ [][(caller.pc = "send" /\ caller'.pc # "send") =>
             /\ caller'.pc = "idle"
             /\ Len(calls') = Len(calls) + 1
             /\ calls'[Len(calls')].doc = caller.pending.id
             /\ calls'[Len(calls')].ret = "Ok"
             /\ IF \E w \in Workers : ~Terminated(w)
                THEN /\ Len(queue) < QUEUE_CAPACITY
                     /\ queue' = Append(queue, caller.pending)
                     /\ calls'[Len(calls')].send = "Ok"
                ELSE /\ queue' = queue
                     /\ calls'[Len(calls')].send = "Err"]_vars

\* A sender blocked on the full buffer after every worker has terminated.
C20_Witness ==
    /\ caller.pc = "send"
    /\ num_threads >= 1
    /\ \A w \in Workers : Terminated(w)
    /\ \E w \in Workers : pc[w] = "panicked"

(***************************************************************************)
(* Properties of the query parser.                                         *)
(***************************************************************************)
\* The call made was accepted by the grammar.
Accepted ==
    \/ parsed.call = "query_language" /\ parsed.status = "Ok"
    \/ parsed.call = "parse_query" /\ parsed.status # "SyntaxError"

\* The text the grammar was run on, and the literals it returned.
GrammarInput == IF parsed.call = "parse_query" THEN trim(query) ELSE query

Literals == query_language(GrammarInput).literals

\* Position p of s is outside the quoted phrases and is not a quote.
OutsidePhrase(s, p) ==
    /\ s[p] # Quote
    /\ Cardinality({k \in 1..(p - 1) : s[k] = Quote}) % 2 = 0

\* The field-qualified literals on a field the schema does not have.
UnknownFieldLiterals ==
    {i \in 1..Len(Literals) :
        Literals[i].kind = "WithField" /\ get_field(Literals[i].field) = NoField}

\* The number of terms literal i stands for: one per token, and for a
\* default-field literal one per token and default field.
TermCount(i) ==
    IF Literals[i].kind = "WithField" THEN Len(tokenize(Literals[i].val))
    ELSE Len(default_fields) * Len(tokenize(Literals[i].val))

\* Where the terms of literal i start in the term list, less one.
TermOffset(i) == SumSeq([j \in 1..(i - 1) |-> TermCount(j)])

\* C11: parse_query on a query the grammar accepts returns
\* FieldDoesNotExist(name), and no terms, for the leftmost field-qualified
\* literal whose field the schema does not have; when there is none it
\* returns Ok and each field-qualified literal stands in the term list for
\* the tokens of its value, in order, each tagged with its field.
C11_UnknownFieldRejected ==
    (parsed.call = "parse_query" /\ Accepted) =>
        IF UnknownFieldLiterals # {}
        THEN /\ parsed.status = "FieldDoesNotExist"
             /\ \E i \in UnknownFieldLiterals :
                   /\ \A j \in UnknownFieldLiterals : i <= j
                   /\ parsed.name = Literals[i].field
             /\ parsed.terms = <<>>
        ELSE /\ parsed.status = "Ok"
             /\ \A i \in 1..Len(Literals) :
                   Literals[i].kind = "WithField" =>
                       /\ TermOffset(i) + TermCount(i) <= Len(parsed.terms)
                       /\ \A k \in 1..TermCount(i) :
                             parsed.terms[TermOffset(i) + k]
                                = <<get_field(Literals[i].field),
                                    tokenize(Literals[i].val)[k]>>

\* Two literals on different unknown fields after one on a field of the schema.
C11_Witness ==
    /\ parsed.call = "parse_query"
    /\ parsed.status = "FieldDoesNotExist"
    /\ Len(Literals) >= 3
    /\ get_field(Literals[1].field) # NoField
    /\ Literals[1].kind = "WithField"
    /\ \E i, j \in UnknownFieldLiterals : Literals[i].field # Literals[j].field

\* C12: the term list of a parsed query is the concatenation of the
\* literals' terms in the order of the literals; a default-field literal
\* stands for its tokens, in order, tagged with the first default field,
\* then its tokens tagged with the second, and so on: |default_fields| terms
\* for one token, none when there is no default field.
C12_TermsInLiteralOrder ==
    (parsed.call = "parse_query" /\ parsed.status = "Ok") =>
        /\ Len(parsed.terms) = TermOffset(Len(Literals) + 1)
        /\ \A i \in 1..Len(Literals) :
              LET tokens == tokenize(Literals[i].val)
              IN IF Literals[i].kind = "WithField"
                 THEN \A k \in 1..Len(tokens) :
                         parsed.terms[TermOffset(i) + k]
                            = <<get_field(Literals[i].field), tokens[k]>>
                 ELSE \A j \in 1..Len(default_fields) : \A k \in 1..Len(tokens) :
                         parsed.terms[TermOffset(i) + (j - 1) * Len(tokens) + k]
                            = <<default_fields[j], tokens[k]>>

\* A default-field literal of two tokens and a field-qualified literal,
\* parsed with two default fields.
C12_Witness ==
    /\ parsed.call = "parse_query"
    /\ parsed.status = "Ok"
    /\ Len(default_fields) = 2
    /\ \E i, j \in 1..Len(Literals) :
          /\ i < j
          /\ Literals[i].kind = "DefaultField"
          /\ Len(tokenize(Literals[i].val)) = 2
          /\ Literals[j].kind = "WithField"
    /\ Len(parsed.terms) >= 5

\* The runs of whitespace outside the quoted phrases, by their first position.
WhitespaceRuns(s) ==
    {p \in 1..Len(s) :
        /\ s[p] \in Whitespace
        /\ OutsidePhrase(s, p)
        /\ (p = 1 \/ s[p - 1] \notin Whitespace)}

\* C13: whitespace between literals is mandatory.  The grammar takes no
\* whitespace before the first literal or after the last, so every run of
\* whitespace outside a phrase stands between two literals: each pair of
\* consecutive literals is separated by whitespace exactly when there is one
\* run less than there are literals.
C13_WhitespaceBetweenLiterals ==
    (Accepted /\ Len(Literals) >= 2) =>
        Cardinality(WhitespaceRuns(GrammarInput)) = Len(Literals) - 1

\* The colon at p follows a run of letters that starts a literal and is
\* followed by a word or by a phrase that is not empty.
FieldColon(s, p) ==
    /\ \E f \in 1..(p - 1) :
          /\ \A k \in f..(p - 1) : s[k] \in Letters
          /\ f = 1 \/ s[f - 1] \in Whitespace \cup {Quote}
    /\ p < Len(s)
    /\ \/ s[p + 1] \in Alphanumeric
       \/ s[p + 1] = Quote /\ p + 2 <= Len(s) /\ s[p + 2] # Quote

\* C14: in an input the grammar accepts, every character outside a phrase
\* is alphanumeric, whitespace, a quote, or the colon of a field query: a
\* colon that follows a non-empty run of letters at the start of a literal
\* and is followed by a non-empty word or phrase; there are as many such
\* colons as field-qualified literals, no literal has an empty field name
\* or value; and the empty input is accepted with no literal.
C14_ColonOnlyInFieldQuery ==
    /\ (parsed.call # "none" /\ GrammarInput = <<>>) =>
          /\ parsed.status = "Ok"
          /\ parsed.literals = <<>>
          /\ parsed.terms = <<>>
    /\ Accepted =>
          /\ \A p \in 1..Len(GrammarInput) :
                OutsidePhrase(GrammarInput, p) =>
                    /\ GrammarInput[p] \in Alphanumeric \cup Whitespace \cup {Colon}
                    /\ GrammarInput[p] = Colon => FieldColon(GrammarInput, p)
          /\ Cardinality({p \in 1..Len(GrammarInput) :
                             OutsidePhrase(GrammarInput, p) /\ GrammarInput[p] = Colon})
                = Cardinality({i \in 1..Len(Literals) : Literals[i].kind = "WithField"})
          /\ \A i \in 1..Len(Literals) :
                /\ Literals[i].val # <<>>
                /\ Literals[i].kind = "WithField" =>
                      /\ Literals[i].field # <<>>
                      /\ \A k \in 1..Len(Literals[i].field) :
                            Literals[i].field[k] \in Letters

\* An accepted input with the colon of a field query and a colon in a phrase.
C14_Witness ==
    /\ parsed.call = "query_language"
    /\ parsed.status = "Ok"
    /\ \E p, r \in 1..Len(query) :
          /\ query[p] = Colon
          /\ OutsidePhrase(query, p)
          /\ query[r] = Colon
          /\ ~OutsidePhrase(query, r)

====
